---- MODULE Spec2Model ----
(***************************************************************************)
(* TimeMate (modules/timemate.py): the Accounts and Times tables, the      *)
(* process-wide position map pos_to_id and the commands of the shell that  *)
(* read and write them.                                                    *)
(*                                                                         *)
(* Time.  The wall clock is kept in half seconds: clock = 2*s + h stands   *)
(* for an instant in [s + h/2, s + h/2 + 1/2).  timestamp() rounds the     *)
(* instant to the nearest second, so it is s + h.  A calendar day has      *)
(* DayLen seconds and local midnights are the multiples of DayLen.         *)
(* A command reads the clock once.                                         *)
(*                                                                         *)
(* last is a history variable: the command that wrote to a table in the    *)
(* step into the current state.                                            *)
(*                                                                         *)
(* conn is the connection of a timer_start that is taken statement by      *)
(* statement (SpecTxn): its position in the code and the Times table as    *)
(* the connection sees it, uncommitted changes included.  Times is always  *)
(* the committed table, the one any other connection reads.  In the other  *)
(* specifications a command is one step and conn stays closed.             *)
(*                                                                         *)
(* console holds what the last report printed (SpecReport, SpecMonth,      *)
(* SpecAccount): the totals it computed.  The calendar of the reports has  *)
(* days of DayLen seconds and weeks of seven days, and second 0 is the     *)
(* midnight that begins a Monday and 1 January.                            *)
(*                                                                         *)
(* The commands of the earlier revision modules/database.py that differ    *)
(* are the definitions named database_... (SpecDatabase).                  *)
(***************************************************************************)
EXTENDS Integers, Sequences, FiniteSets, TLC

VARIABLES Accounts, Times, pos_to_id, clock, last, conn, console

vars == <<Accounts, Times, pos_to_id, clock, last, conn, console>>

(* ------------------------------ bounds --------------------------------- *)
DayLen == 2
MaxTimers == 2
MaxAccounts == 2
MaxImport == 1
MaxTicks == 3
\* the durations that are formatted: 0 .. MaxSeconds seconds
MaxSeconds == 3700

\* the runs start in the last second of day 1 and go on for MaxTicks half seconds
FirstClock == 2 * (2 * DayLen - 1)
LastClock == FirstClock + MaxTicks

(* ------------------------------ values --------------------------------- *)
\* SQL NULL / Python None in an INTEGER column or variable
NULL == -1

\* what the user types at the prompts of add_timer and passes to add_account
Selections == {"a"}
Memos == {"m"}
\* what an imported file holds; an entry without a memo gets ""
ImportNames == {"a"}
ImportMemos == {""}
Positions == 1 .. (MaxTimers + 1)
\* names that differ in case only, and the empty text
AccountNames == {"a", "A", ""}
\* what the user may type at the account prompt: a name or a row number
PromptTexts == AccountNames \cup {"1"}

\* str.lower() on the names used here
Lower(s) == IF s = "A" THEN "a" ELSE s

\* str(idx) for the row numbers used here
Str(i) == CASE i = 1 -> "1" [] i = 2 -> "2" [] i = 3 -> "3" [] OTHER -> "4"

\* Python truthiness of an int-or-None value
Truthy(v) == v # NULL /\ v # 0

(* ------------------------------ clock ---------------------------------- *)
\* datetime.datetime.now(), whole seconds and the half of the second it is in
Sec == clock \div 2
Hi == clock % 2

\* round(datetime.datetime.now().timestamp())
timestamp == Sec + Hi

\* local midnight at or before second t
Midnight(t) == (t \div DayLen) * DayLen

\* archive_timers: now.replace(hour=0, minute=0, second=0, microsecond=0).timestamp()
ArchiveCutoff == Midnight(Sec)

\* timer_start: round(now.replace(hour=0, minute=0, second=0).timestamp());
\* the microseconds are kept, so the cutoff is rounded up in the second half of a second
Today == Midnight(Sec) + Hi

(* ------------------------------ tables --------------------------------- *)
\* INSERT INTO Times: time_id is the position in the table (AUTOINCREMENT, no DELETE)
TimesRow(account_id, memo, status, timedelta, datetime) ==
    [account_id |-> account_id, memo |-> memo, status |-> status,
     timedelta |-> timedelta, datetime |-> datetime]

\* INSERT INTO Accounts: account_id is the position in the table; the datetime
\* column is written by add_account and populate and read by no command, and is
\* left out
AccountsRow(account_name) == [account_name |-> account_name]

\* AccountIdOf that compares names without regard to case
AccountIdOf_NoCase(A, name) ==
    IF \E i \in DOMAIN A : Lower(A[i].account_name) = Lower(name)
    THEN CHOOSE i \in DOMAIN A : Lower(A[i].account_name) = Lower(name)
    ELSE 0

\* SELECT account_id FROM Accounts WHERE account_name = ?  (0: no row)
AccountIdOf(A, name) ==
    IF \E i \in DOMAIN A : A[i].account_name = name
    THEN CHOOSE i \in DOMAIN A : A[i].account_name = name
    ELSE 0

\* pos_to_id.get(position)  (0: None)
PosGet(p, position) == IF position \in DOMAIN p THEN p[position] ELSE 0

\* the empty dict pos_to_id of a fresh process
EmptyPosToId == [i \in {} |-> 0]

\* time_ids of the rows with status 'running'
RunningIds(T) == {i \in DOMAIN T : T[i].status = "running"}

\* last: the command whose step led into this state, if it wrote to a table: its
\* name, the time_id it resolved, the branch it took and the rows that were
\* running when it was called; NoCall after any other step
NoCall == [op |-> "none", time_id |-> 0, msg |-> "", running |-> {}]

Call(op, time_id, msg) ==
    [op |-> op, time_id |-> time_id, msg |-> msg, running |-> RunningIds(Times)]

Wrote(T, T2, call) == IF T2 = T THEN NoCall ELSE call

\* conn: no statement of a timer_start is pending
NoConn == [pc |-> "closed", time_id |-> 0, now |-> 0, today |-> 0, branch |-> "", T |-> << >>]

\* console: no report has been printed
NoReport == [op |-> "none", report_date |-> 0, week_start |-> 0, week_end |-> 0,
             week_total |-> 0, day_totals |-> << >>]

(* ------------------------------ listing -------------------------------- *)
RECURSIVE ListedFrom(_, _, _, _)
\* SELECT ... FROM Times T JOIN Accounts A ON T.account_id = A.account_id
\* WHERE {status_filter} ORDER BY T.time_id, as the sequence of the time_ids >= i
ListedFrom(T, A, include_all, i) ==
    IF i > Len(T) THEN << >>
    ELSE IF /\ T[i].account_id \in DOMAIN A
            /\ (include_all \/ T[i].status \in {"running", "paused"})
         THEN <<i>> \o ListedFrom(T, A, include_all, i + 1)
         ELSE ListedFrom(T, A, include_all, i + 1)

ListedIds(T, A, include_all) == ListedFrom(T, A, include_all, 1)

\* number of rows the display loop handles: format_dt(start_time) raises on a
\* NULL start_time, after pos_to_id[idx] of that row has been assigned
RowsHandled(T, ids) ==
    IF \E k \in DOMAIN ids : T[ids[k]].datetime = NULL
    THEN CHOOSE k \in DOMAIN ids :
            /\ T[ids[k]].datetime = NULL
            /\ \A j \in 1 .. (k - 1) : T[ids[j]].datetime # NULL
    ELSE Len(ids)

\* the position map after _list_timers(include_all): entries of the rows handled
\* are assigned, all other entries stay as they were
_list_timers(p, T, A, include_all) ==
    LET ids == ListedIds(T, A, include_all)
        n == RowsHandled(T, ids)
    IN [idx \in (DOMAIN p) \cup (1 .. n) |-> IF idx <= n THEN ids[idx] ELSE p[idx]]

\* elapsed = timedelta + (now - start_time if status == "running" else 0)
elapsed(row, now) ==
    row.timedelta + (IF row.status = "running" THEN now - row.datetime ELSE 0)

(* ------------------------------ Init ----------------------------------- *)
Init ==
    /\ Accounts = << >>
    /\ Times = << >>
    /\ pos_to_id = EmptyPosToId
    /\ clock = FirstClock
    /\ last = NoCall
    /\ conn = NoConn
    /\ console = NoReport

(* ------------------------------ commands ------------------------------- *)
\* the wall clock advances by half a second
Tick ==
    /\ clock < LastClock
    /\ clock' = clock + 1
    /\ last' = NoCall
    /\ UNCHANGED <<Accounts, Times, pos_to_id, conn, console>>

\* main(): a new process starts with an empty position map; the database persists
main ==
    /\ pos_to_id # EmptyPosToId
    /\ pos_to_id' = EmptyPosToId
    /\ last' = NoCall
    /\ UNCHANGED <<Accounts, Times, clock, conn, console>>

\* INSERT INTO Accounts (account_name, datetime); UNIQUE(account_name) raises IntegrityError
add_account(account_name) ==
    /\ IF AccountIdOf(Accounts, account_name) # 0
       THEN /\ last' = NoCall
            /\ UNCHANGED Accounts
       ELSE /\ Len(Accounts) < MaxAccounts
            /\ Accounts' = Append(Accounts, AccountsRow(account_name))
            /\ last' = Call("add_account", 0, "added")
    /\ UNCHANGED <<Times, pos_to_id, clock, conn, console>>

\* account_completions.get(key): str(idx) and account_name.lower() map to the
\* account_id of row idx, later rows overwriting earlier ones  (0: None)
account_completions(A, key) ==
    LET hits == {idx \in DOMAIN A : Str(idx) = key \/ Lower(A[idx].account_name) = key}
    IN IF hits = {} THEN 0 ELSE CHOOSE idx \in hits : \A j \in hits : j <= idx

\* NewTimerRow without the timestamp: the datetime column is left NULL
NewTimerRow_NoStamp(account_id, memo, now) ==
    TimesRow(account_id, memo, "paused", 0, NULL)

\* INSERT INTO Times (...) VALUES (?, ?, 'paused', 0, ?) with (account_id, memo, now)
NewTimerRow(account_id, memo, now) ==
    TimesRow(account_id, memo, "paused", 0, now)

\* cancelled: 1 = KeyboardInterrupt at the account prompt, 2 = at the memo prompt
add_timer(selection, memo, cancelled) ==
    LET found == account_completions(Accounts, Lower(selection))
        A1 == IF found = 0 THEN Append(Accounts, AccountsRow(selection)) ELSE Accounts
        account_id == IF found = 0 THEN Len(A1) ELSE found
    IN /\ IF cancelled = 1
          THEN /\ UNCHANGED <<Accounts, Times>>
               /\ last' = NoCall
          ELSE /\ Len(A1) <= MaxAccounts
               /\ Accounts' = A1
               /\ IF cancelled = 2
                  THEN /\ UNCHANGED Times
                       /\ last' = NoCall
                  ELSE /\ Len(Times) < MaxTimers
                       /\ Times' = Append(Times, NewTimerRow(account_id, memo, timestamp))
                       /\ last' = Call("add_timer", Len(Times) + 1, "added")
       /\ UNCHANGED <<pos_to_id, clock, conn, console>>

list_timers(all) ==
    /\ pos_to_id' = _list_timers(pos_to_id, Times, Accounts, all)
    /\ last' = NoCall
    /\ UNCHANGED <<Accounts, Times, clock, conn, console>>

\* ArchiveRows with WHERE datetime <= ?
ArchiveRows_Inclusive(T, midnight) ==
    [i \in DOMAIN T |->
        IF /\ T[i].datetime # NULL
           /\ T[i].datetime <= midnight
           /\ T[i].status # "inactive"
        THEN [T[i] EXCEPT !.status = "inactive"]
        ELSE T[i]]

\* UPDATE Times SET status = 'inactive' WHERE datetime < ? AND status != 'inactive'
\* (a NULL datetime compares as unknown: the row is not updated)
ArchiveRows(T, midnight) ==
    [i \in DOMAIN T |->
        IF /\ T[i].datetime # NULL
           /\ T[i].datetime < midnight
           /\ T[i].status # "inactive"
        THEN [T[i] EXCEPT !.status = "inactive"]
        ELSE T[i]]

archive_timers ==
    /\ Times' = ArchiveRows(Times, ArchiveCutoff)
    /\ last' = Wrote(Times, Times', Call("archive_timers", 0, ""))
    /\ UNCHANGED <<Accounts, pos_to_id, clock, conn, console>>

\* StopRunning with the UPDATE left out: a running timer keeps running
StopRunning_Skipped(T, now) == T

\* StopRunning that pauses and stamps the running rows without banking their interval
StopRunning_NoBanking(T, now) ==
    [i \in DOMAIN T |->
        IF T[i].status = "running"
        THEN [T[i] EXCEPT !.status = "paused", !.datetime = now]
        ELSE T[i]]

\* StopRunning without its WHERE clause: every row is paused and stamped
StopRunning_NoWhere(T, now) ==
    [i \in DOMAIN T |->
        [T[i] EXCEPT !.status = "paused",
                     !.timedelta = T[i].timedelta + (now - T[i].datetime),
                     !.datetime = now]]

\* UPDATE Times SET status = 'paused', timedelta = timedelta + (? - datetime),
\* datetime = ? WHERE status = 'running'
StopRunning(T, now) ==
    [i \in DOMAIN T |->
        IF T[i].status = "running"
        THEN [T[i] EXCEPT !.status = "paused",
                          !.timedelta = T[i].timedelta + (now - T[i].datetime),
                          !.datetime = now]
        ELSE T[i]]

\* the branch timer_start takes for time_id, on the table after StopRunning
StartBranch(T, time_id, today) ==
    IF time_id = 0 THEN "invalid"
    ELSE IF time_id \notin DOMAIN T THEN "norow"
    ELSE IF Truthy(T[time_id].datetime) /\ T[time_id].datetime < today THEN "rollover"
    ELSE "started"

\* Rollover without the UPDATE of the original
Rollover_NoArchive(T, time_id, now) ==
    Append(T, TimesRow(T[time_id].account_id, T[time_id].memo, "running", 0, now))

\* INSERT INTO Times ... VALUES (?, ?, 'running', 0, ?) and
\* UPDATE Times SET status = 'inactive' WHERE time_id = ?
Rollover(T, time_id, now) ==
    Append([T EXCEPT ![time_id].status = "inactive"],
           TimesRow(T[time_id].account_id, T[time_id].memo, "running", 0, now))

\* StartInPlace that leaves the datetime column as it was
StartInPlace_NoStamp(T, time_id, now) ==
    [T EXCEPT ![time_id].status = "running"]

\* UPDATE Times SET status = 'running', datetime = ? WHERE time_id = ?
StartInPlace(T, time_id, now) ==
    [T EXCEPT ![time_id].status = "running", ![time_id].datetime = now]

timer_start(position) ==
    LET time_id == PosGet(pos_to_id, position)
        now == timestamp
        today == Today
        T1 == StopRunning(Times, now)
        branch == StartBranch(T1, time_id, today)
        T2 == CASE branch = "rollover" -> Rollover(T1, time_id, now)
                [] branch = "started" -> StartInPlace(T1, time_id, now)
                [] OTHER -> T1
    IN /\ Len(T2) <= MaxTimers
       /\ Times' = T2
       /\ pos_to_id' = _list_timers(pos_to_id, T2, Accounts, FALSE)
       /\ last' = Wrote(Times, T2, Call("timer_start", time_id, branch))
       /\ UNCHANGED <<Accounts, clock, conn, console>>

\* the branch timer_pause takes for time_id
PauseBranch(T, time_id) ==
    IF time_id = 0 THEN "invalid"
    ELSE IF time_id \notin DOMAIN T THEN "norow"
    ELSE IF T[time_id].datetime = NULL THEN "already paused"
    ELSE "stopped"

\* PauseRow that archives the timer instead of pausing it
PauseRow_Inactive(T, time_id, now) ==
    [T EXCEPT ![time_id].status = "inactive",
              ![time_id].timedelta = T[time_id].timedelta + (now - T[time_id].datetime),
              ![time_id].datetime = now]

\* PauseRow that keeps the old start_time in the datetime column
PauseRow_NoStamp(T, time_id, now) ==
    [T EXCEPT ![time_id].status = "paused",
              ![time_id].timedelta = T[time_id].timedelta + (now - T[time_id].datetime)]

\* elapsed = now - start_time; UPDATE Times SET status = 'paused',
\* timedelta = timedelta + ?, datetime = ? WHERE time_id = ?
PauseRow(T, time_id, now) ==
    [T EXCEPT ![time_id].status = "paused",
              ![time_id].timedelta = T[time_id].timedelta + (now - T[time_id].datetime),
              ![time_id].datetime = now]

timer_pause(position) ==
    LET time_id == PosGet(pos_to_id, position)
        now == timestamp
        branch == PauseBranch(Times, time_id)
        T2 == IF branch = "stopped" THEN PauseRow(Times, time_id, now) ELSE Times
    IN /\ Times' = T2
       /\ pos_to_id' = _list_timers(pos_to_id, T2, Accounts, FALSE)
       /\ last' = Wrote(Times, T2, Call("timer_pause", time_id, branch))
       /\ UNCHANGED <<Accounts, clock, conn, console>>

(* ------------------------------ import --------------------------------- *)
\* time_entry.get("timedelta", 0) and time_entry.get("datetime", None) of an
\* entry that has neither key
PopTimedeltas == {0}
PopDatetimes == {NULL}
\* "datetime": 0, the first second of the epoch
EpochDatetimes == {0}
\* "datetime": round(start.timestamp()) of an entry make_examples.py writes for
\* a later hour of the day it is run on: a second after every reading of the clock
FutureDatetimes == {(LastClock \div 2) + 2}

AccountEntries == [account_name : ImportNames]
NamedAccountEntries == [account_name : AccountNames]
\* an imported file with two account names and timers of 0 and 1 seconds
ImportedNames == {"a", "A"}
ImportedAccountEntries == [account_name : ImportedNames]
ImportedTimeEntries == [account_name : ImportedNames, memo : ImportMemos,
                        timedelta : {0, 1}, datetime : PopDatetimes]
TimeEntries == [account_name : ImportNames, memo : ImportMemos,
                timedelta : PopTimedeltas, datetime : PopDatetimes]
EpochTimeEntries == [account_name : ImportNames, memo : ImportMemos,
                     timedelta : PopTimedeltas, datetime : EpochDatetimes]
FutureTimeEntries == [account_name : ImportNames, memo : ImportMemos,
                      timedelta : PopTimedeltas, datetime : FutureDatetimes]

SeqsUpTo(S, n) == UNION {[1 .. k -> S] : k \in 0 .. n}

RECURSIVE PopulateAccounts(_, _)
\* for account in accounts: INSERT INTO Accounts, IntegrityError skips the entry
PopulateAccounts(A, accounts) ==
    IF accounts = << >> THEN A
    ELSE LET name == Head(accounts).account_name
             A1 == IF AccountIdOf(A, name) # 0 THEN A
                   ELSE Append(A, AccountsRow(name))
         IN PopulateAccounts(A1, Tail(accounts))

RECURSIVE PopulateTimes_NoResolve(_, _, _)
\* PopulateTimes that inserts the entry whether or not its account was found
PopulateTimes_NoResolve(T, A, times) ==
    IF times = << >> THEN T
    ELSE LET e == Head(times)
             account_id == AccountIdOf(A, e.account_name)
             T1 == Append(T, TimesRow(account_id, e.memo, "paused", e.timedelta, e.datetime))
         IN PopulateTimes_NoResolve(T1, A, Tail(times))

RECURSIVE PopulateTimes_StopAtUnknown(_, _, _)
\* PopulateTimes that ends the import at the first entry whose account is not found
PopulateTimes_StopAtUnknown(T, A, times) ==
    IF times = << >> THEN T
    ELSE LET e == Head(times)
             account_id == AccountIdOf(A, e.account_name)
         IN IF account_id # 0
            THEN PopulateTimes_StopAtUnknown(
                    Append(T, TimesRow(account_id, e.memo, "paused", e.timedelta, e.datetime)),
                    A, Tail(times))
            ELSE T

RECURSIVE PopulateTimes(_, _, _)
\* for time_entry in times: resolve account_name, INSERT INTO Times ... 'paused'
PopulateTimes(T, A, times) ==
    IF times = << >> THEN T
    ELSE LET e == Head(times)
             account_id == AccountIdOf(A, e.account_name)
             T1 == IF account_id # 0
                   THEN Append(T, TimesRow(account_id, e.memo, "paused", e.timedelta, e.datetime))
                   ELSE T
         IN PopulateTimes(T1, A, Tail(times))

populate(accounts, times) ==
    LET A1 == PopulateAccounts(Accounts, accounts)
        T1 == PopulateTimes(Times, A1, times)
        \* "Account ... not found! Skipping timer." was printed
        skipped == \E k \in DOMAIN times : AccountIdOf(A1, times[k].account_name) = 0
    IN /\ Len(A1) <= MaxAccounts
       /\ Len(T1) <= MaxTimers
       /\ Accounts' = A1
       /\ Times' = T1
       /\ last' = Wrote(Times, T1, Call("populate", 0, IF skipped THEN "skipped" ELSE ""))
       /\ UNCHANGED <<pos_to_id, clock, conn, console>>

(* ------------------------------ specification -------------------------- *)
Next ==
    \/ Tick
    \/ main
    \/ \E account_name \in Selections : add_account(account_name)
    \/ \E selection \in Selections, memo \in Memos, cancelled \in 0 .. 2 :
          add_timer(selection, memo, cancelled)
    \/ \E all \in BOOLEAN : list_timers(all)
    \/ archive_timers
    \/ \E position \in Positions : timer_start(position)
    \/ \E position \in Positions : timer_pause(position)
    \/ \E accounts \in SeqsUpTo(AccountEntries, MaxImport),
          times \in SeqsUpTo(TimeEntries, MaxImport) : populate(accounts, times)

Spec == Init /\ [][Next]_vars

\* the same shell, where an imported file may also hold entries dated at second 0
NextEpoch ==
    \/ Next
    \/ \E accounts \in SeqsUpTo(AccountEntries, MaxImport),
          times \in SeqsUpTo(EpochTimeEntries, MaxImport) : populate(accounts, times)

SpecEpoch == Init /\ [][NextEpoch]_vars

(* ------------------------------ reports -------------------------------- *)
\* report_date.weekday() of a date given as its midnight: 0 is Monday
weekday(report_date) == (report_date \div DayLen) % 7

\* datetime.timedelta(days=n), in seconds
days(n) == n * DayLen

\* time_ids of the rows with T.datetime BETWEEN lo AND hi (both ends included;
\* a NULL datetime is in no range)
Between(T, lo, hi) ==
    {i \in DOMAIN T : T[i].datetime # NULL /\ lo <= T[i].datetime /\ T[i].datetime <= hi}

RECURSIVE SumTimedelta(_, _)
\* SELECT SUM(T.timedelta) over the rows S, "or 0" when there is none
SumTimedelta(T, S) ==
    IF S = {} THEN 0
    ELSE LET i == CHOOSE x \in S : TRUE
         IN T[i].timedelta + SumTimedelta(T, S \ {i})

\* week_start = report_date - weekday days, week_end = week_start + 6 days;
\* the week total and the seven day totals (day .. day + 1 day); the report
\* prints the two dates, the week total and the day totals that are not 0
report_week(report_date) ==
    LET week_start == report_date - days(weekday(report_date))
        week_end == week_start + days(6)
        week_total == SumTimedelta(Times, Between(Times, week_start, week_end))
        day_total(i) ==
            SumTimedelta(Times, Between(Times, week_start + days(i), week_start + days(i) + days(1)))
    IN /\ console' = [op |-> "report_week", report_date |-> report_date,
                      week_start |-> week_start, week_end |-> week_end,
                      week_total |-> week_total,
                      day_totals |-> [i \in 1 .. 7 |-> day_total(i - 1)]]
       /\ last' = NoCall
       /\ UNCHANGED <<Accounts, Times, pos_to_id, clock, conn>>

\* the dates a report is asked for: a Wednesday and the Sunday of the first week
ReportDates == {days(2), days(6)}

\* "datetime" of the imported entries: the Monday midnight that begins the first
\* week, a second later, the midnight that begins its Tuesday, the midnight
\* that begins its Sunday, a second later, and the next Monday midnight
ReportDatetimes == {0, 1, days(1), days(6), days(6) + 1, days(7)}
ReportTimedeltas == {1}

ReportTimeEntries == [account_name : ImportNames, memo : ImportMemos,
                      timedelta : ReportTimedeltas, datetime : ReportDatetimes]

\* a database filled by imports, and the weekly report on it
NextReport ==
    \/ \E accounts \in SeqsUpTo(AccountEntries, MaxImport),
          times \in SeqsUpTo(ReportTimeEntries, MaxImport) : populate(accounts, times)
    \/ \E report_date \in ReportDates : report_week(report_date)

SpecReport == Init /\ [][NextReport]_vars

(* ------------------------------ months --------------------------------- *)
\* the calendar of the monthly reports: January to April of a year that is no
\* leap year, second 0 being 1 January 00:00
MonthDays == <<31, 28, 31, 30>>

RECURSIVE DaysBefore(_)
\* days of the year before the first day of month k
DaysBefore(k) == IF k = 1 THEN 0 ELSE DaysBefore(k - 1) + MonthDays[k - 1]

\* the first day of month k, 00:00
MonthStart(k) == days(DaysBefore(k))

\* the month that second t (before 1 May) is in
MonthOf(t) ==
    CHOOSE k \in 1 .. Len(MonthDays) :
        MonthStart(k) <= t /\ t < MonthStart(k) + days(MonthDays[k])

\* d.replace(day=1): the first day of the month of d, at the time of day of d
replace_day_1(d) == MonthStart(MonthOf(d)) + (d % DayLen)

\* month_end with next_month itself as the upper end of the range
month_end_NoStep(next_month) == next_month

\* month_end = next_month - datetime.timedelta(seconds=1)
month_end(next_month) == next_month - 1

\* the account names of the rows S of T, by the JOIN with Accounts
JoinedNames(T, A, S) ==
    {A[T[i].account_id].account_name : i \in {j \in S : T[j].account_id \in DOMAIN A}}

\* the rows S of T that the JOIN gives the account account_name
RowsOfName(T, A, S, account_name) ==
    {i \in S : T[i].account_id \in DOMAIN A /\ A[T[i].account_id].account_name = account_name}

\* report_month: strptime(month_input, "%Y-%m") is the first day of a month,
\* 00:00; the month total, the total of each account with a timer in the range
\* (GROUP BY A.account_name) and the timers listed under each account
report_month(report_date) ==
    LET month_start == replace_day_1(report_date)
        next_month == replace_day_1(month_start + days(32))
        rows == Between(Times, month_start, month_end(next_month))
        names == JoinedNames(Times, Accounts, rows)
    IN /\ console' = [op |-> "report_month", report_date |-> report_date,
                      month_start |-> month_start, month_end |-> month_end(next_month),
                      month_total |-> SumTimedelta(Times, rows),
                      account_totals |->
                          [n \in names |-> SumTimedelta(Times, RowsOfName(Times, Accounts, rows, n))],
                      timers |-> [n \in names |-> RowsOfName(Times, Accounts, rows, n)]]
       /\ last' = NoCall
       /\ UNCHANGED <<Accounts, Times, pos_to_id, clock, conn>>

\* the months a report is asked for: January and February
MonthDates == {MonthStart(1), MonthStart(2)}

\* "datetime" of the imported entries: the last second of January, the first
\* second of February, the last second of February and the first second of March
MonthDatetimes == {MonthStart(2) - 1, MonthStart(2), MonthStart(3) - 1, MonthStart(3)}

MonthTimeEntries == [account_name : ImportedNames, memo : ImportMemos,
                     timedelta : ReportTimedeltas, datetime : MonthDatetimes]

\* a database filled by imports, and the monthly report on it
NextMonth ==
    \/ \E accounts \in SeqsUpTo(ImportedAccountEntries, MaxImport),
          times \in SeqsUpTo(MonthTimeEntries, MaxImport) : populate(accounts, times)
    \/ \E report_date \in MonthDates : report_month(report_date)

SpecMonth == Init /\ [][NextMonth]_vars

\* report_account: account_completions.get(selected_name), a dict from
\* account_name.lower() to the row, later rows overwriting earlier ones  (0: None)
report_account_completions(A, key) ==
    LET hits == {idx \in DOMAIN A : Lower(A[idx].account_name) = key}
    IN IF hits = {} THEN 0 ELSE CHOOSE idx \in hits : \A j \in hits : j <= idx

\* SELECT MIN(datetime), MAX(datetime) FROM Times WHERE account_id = ?
\* (NULL when the account has no row with a datetime)
DatetimesOf(T, account_id) ==
    {T[i].datetime : i \in {j \in DOMAIN T : T[j].account_id = account_id /\ T[j].datetime # NULL}}

MinDatetime(T, account_id) ==
    LET D == DatetimesOf(T, account_id)
    IN IF D = {} THEN NULL ELSE CHOOSE d \in D : \A e \in D : d <= e

MaxDatetime(T, account_id) ==
    LET D == DatetimesOf(T, account_id)
    IN IF D = {} THEN NULL ELSE CHOOSE d \in D : \A e \in D : e <= d

RECURSIVE MonthSections(_, _, _, _)
\* while current_date <= end_date: the heading (month_start), the total and the
\* timers of the account in month_start .. month_end; current_date = next_month
MonthSections(T, account_id, current_date, end_date) ==
    IF current_date > end_date THEN << >>
    ELSE LET month_start == replace_day_1(current_date)
             next_month == replace_day_1(month_start + days(32))
             rows == {i \in Between(T, month_start, month_end(next_month)) :
                         T[i].account_id = account_id}
         IN <<[month_start |-> month_start, month_end |-> month_end(next_month),
               month_total |-> SumTimedelta(T, rows), timers |-> rows]>>
            \o MonthSections(T, account_id, next_month, end_date)

\* report_account: the account typed at the prompt, the starting month (NULL:
\* Enter was pressed, all months) and the ending month
report_account(selected_name, start_date_input, end_date_input) ==
    LET account_id == report_account_completions(Accounts, selected_name)
        all == start_date_input = NULL
        start_date == IF all THEN MinDatetime(Times, account_id) ELSE start_date_input
        end_date == IF all THEN MaxDatetime(Times, account_id) ELSE end_date_input
        msg == IF account_id = 0 THEN "not found"
               ELSE IF all /\ ~Truthy(start_date) THEN "No records found"
               ELSE IF ~all /\ end_date < start_date THEN "Ending month cannot be before starting month"
               ELSE ""
    IN /\ console' = [op |-> "report_account", account_id |-> account_id,
                      all |-> all, msg |-> msg,
                      months |-> IF msg = ""
                                 THEN MonthSections(Times, account_id, start_date, end_date)
                                 ELSE << >>]
       /\ last' = NoCall
       /\ UNCHANGED <<Accounts, Times, pos_to_id, clock, conn>>

\* a database filled by imports, and the account report on it
NextAccount ==
    \/ \E accounts \in SeqsUpTo(ImportedAccountEntries, MaxImport),
          times \in SeqsUpTo(MonthTimeEntries, MaxImport) : populate(accounts, times)
    \/ \E selected_name \in Selections, start_date_input \in MonthDates \cup {NULL},
          end_date_input \in MonthDates :
          report_account(selected_name, start_date_input, end_date_input)

SpecAccount == Init /\ [][NextAccount]_vars

(* ------------------------------ formatting ----------------------------- *)
\* AllowedMinutes = Literal[0, 1, 6, 12, 30, 60] and the default MINUTES = 1
AllowedMinutes == {0, 1, 6, 12, 30, 60}
MINUTES == 1

\* a printed text is the sequence of its numbers, each with the character that
\* follows it: "1h5m" is <<Part(1, "h"), Part(5, "m")>>, "0.1h" is
\* <<Part(0, "."), Part(1, "h")>>
Part(n, unit) == [n |-> n, unit |-> unit]

\* format_hours_minutes_seconds without the default until.append("0m")
format_hours_minutes_seconds_NoDefault(total_seconds) ==
    LET carried == IF total_seconds >= 60
                   THEN (total_seconds \div 60) + (IF total_seconds % 60 >= 30 THEN 1 ELSE 0)
                   ELSE 0
        seconds == IF total_seconds >= 60 THEN total_seconds % 60 ELSE total_seconds
        hours == IF carried >= 60 THEN carried \div 60 ELSE 0
        minutes == IF carried >= 60 THEN carried % 60 ELSE carried
    IN (IF hours # 0 THEN <<Part(hours, "h")>> ELSE << >>)
       \o (IF minutes # 0 THEN <<Part(minutes, "m")>> ELSE << >>)
       \o (IF seconds # 0 THEN <<Part(seconds, "s")>> ELSE << >>)

\* minutes = seconds // 60, plus 1 if the remaining seconds are >= 30; hours =
\* minutes // 60; the parts that are not 0 are printed, "0m" if there is none
format_hours_minutes_seconds(total_seconds) ==
    LET carried == IF total_seconds >= 60
                   THEN (total_seconds \div 60) + (IF total_seconds % 60 >= 30 THEN 1 ELSE 0)
                   ELSE 0
        seconds == IF total_seconds >= 60 THEN total_seconds % 60 ELSE total_seconds
        hours == IF carried >= 60 THEN carried \div 60 ELSE 0
        minutes == IF carried >= 60 THEN carried % 60 ELSE carried
        until == (IF hours # 0 THEN <<Part(hours, "h")>> ELSE << >>)
                 \o (IF minutes # 0 THEN <<Part(minutes, "m")>> ELSE << >>)
                 \o (IF seconds # 0 THEN <<Part(seconds, "s")>> ELSE << >>)
    IN IF until = << >> THEN <<Part(0, "m")>> ELSE until

\* ceil that rounds down
ceil_Floor(minutes, round_up) == minutes \div round_up

\* math.ceil(minutes / round_up)
ceil(minutes, round_up) == (minutes + round_up - 1) \div round_up

\* f"{math.ceil(minutes/round_up)/(60/round_up)}h": for round_up 6, 12, 30, 60
\* the quotient is a number of tenths, printed with one decimal
format_hours_and_tenths(total_seconds, round_up) ==
    IF round_up <= 1 THEN format_hours_minutes_seconds(total_seconds)
    ELSE LET minutes == (total_seconds \div 60) + (IF total_seconds % 60 # 0 THEN 1 ELSE 0)
             tenths == (ceil(minutes, round_up) * round_up) \div 6
         IN IF minutes # 0
            THEN <<Part(tenths \div 10, "."), Part(tenths % 10, "h")>>
            ELSE <<Part(0, "."), Part(0, "h")>>

\* a duration is about to be printed with a granularity
InitFormat ==
    /\ Accounts = << >>
    /\ Times = << >>
    /\ pos_to_id = EmptyPosToId
    /\ clock = FirstClock
    /\ last = NoCall
    /\ conn = NoConn
    /\ console \in [op : {"call"}, total_seconds : 0 .. MaxSeconds, round_up : AllowedMinutes]

\* console.print(format_hours_and_tenths(total_seconds, round_up))
print_hours_and_tenths ==
    /\ console.op = "call"
    /\ console' = [op |-> "format_hours_and_tenths",
                   total_seconds |-> console.total_seconds,
                   round_up |-> console.round_up,
                   text |-> format_hours_and_tenths(console.total_seconds, console.round_up)]
    /\ UNCHANGED <<Accounts, Times, pos_to_id, clock, last, conn>>

SpecFormat == InitFormat /\ [][print_hours_and_tenths]_vars

(* ---------------- timer_start, statement by statement ------------------ *)
\* time_id, now and today are read and the first UPDATE (stop the running
\* timers) is executed: it opens the transaction, nothing is committed
timer_start_stop_running(position) ==
    /\ conn = NoConn
    /\ conn' = [pc |-> "stopped", time_id |-> PosGet(pos_to_id, position),
                now |-> timestamp, today |-> Today, branch |-> "",
                T |-> StopRunning(Times, timestamp)]
    /\ last' = NoCall
    /\ UNCHANGED <<Accounts, Times, pos_to_id, clock, console>>

\* SELECT the row of time_id, then either INSERT the running copy of a timer of
\* a previous day or UPDATE the row to running
timer_start_select ==
    LET branch == StartBranch(conn.T, conn.time_id, conn.today) IN
    /\ conn.pc = "stopped"
    /\ CASE branch = "rollover" ->
               /\ Len(conn.T) < MaxTimers
               /\ conn' = [conn EXCEPT
                     !.pc = "inserted", !.branch = branch,
                     !.T = Append(conn.T, TimesRow(conn.T[conn.time_id].account_id,
                                                   conn.T[conn.time_id].memo,
                                                   "running", 0, conn.now))]
         [] branch = "started" ->
               conn' = [conn EXCEPT !.pc = "commit", !.branch = branch,
                                    !.T = StartInPlace(conn.T, conn.time_id, conn.now)]
         [] OTHER ->
               conn' = [conn EXCEPT !.pc = "commit", !.branch = branch]
    /\ last' = NoCall
    /\ UNCHANGED <<Accounts, Times, pos_to_id, clock, console>>

\* UPDATE Times SET status = 'inactive' WHERE time_id = ? (the rolled-over original)
timer_start_archive ==
    /\ conn.pc = "inserted"
    /\ conn' = [conn EXCEPT !.pc = "commit",
                            !.T = [conn.T EXCEPT ![conn.time_id].status = "inactive"]]
    /\ last' = NoCall
    /\ UNCHANGED <<Accounts, Times, pos_to_id, clock, console>>

\* conn.commit(); conn.close(); _list_timers()
timer_start_commit ==
    /\ conn.pc = "commit"
    /\ Times' = conn.T
    /\ pos_to_id' = _list_timers(pos_to_id, conn.T, Accounts, FALSE)
    /\ last' = Wrote(Times, conn.T, Call("timer_start", conn.time_id, conn.branch))
    /\ conn' = NoConn
    /\ UNCHANGED <<Accounts, clock, console>>

\* the shell with timer_start taken statement by statement; while its
\* transaction is open the clock runs on and any other connection reads Times,
\* and a command that writes waits for the database lock
NextTxn ==
    \/ Tick
    \/ conn = NoConn /\ \E selection \in Selections, memo \in Memos : add_timer(selection, memo, 0)
    \/ conn = NoConn /\ \E all \in BOOLEAN : list_timers(all)
    \/ conn = NoConn /\ archive_timers
    \/ conn = NoConn /\ \E position \in Positions : timer_pause(position)
    \/ \E position \in Positions : timer_start_stop_running(position)
    \/ timer_start_select
    \/ timer_start_archive
    \/ timer_start_commit

SpecTxn == Init /\ [][NextTxn]_vars

\* the commands that write to Accounts, with names that differ in case only,
\* the empty text and a row number
NextNames ==
    \/ \E account_name \in AccountNames : add_account(account_name)
    \/ \E selection \in PromptTexts, memo \in Memos, cancelled \in 0 .. 2 :
          add_timer(selection, memo, cancelled)
    \/ \E accounts \in SeqsUpTo(NamedAccountEntries, MaxImport),
          times \in SeqsUpTo(TimeEntries, MaxImport) : populate(accounts, times)

SpecNames == Init /\ [][NextNames]_vars

\* imports of files with up to MaxImport accounts and one more time entry
NextImport ==
    \E accounts \in SeqsUpTo(ImportedAccountEntries, MaxImport),
       times \in SeqsUpTo(ImportedTimeEntries, MaxImport + 1) : populate(accounts, times)

SpecImport == Init /\ [][NextImport]_vars

\* the same shell, where an imported file may also hold entries dated later than now
NextFuture ==
    \/ Next
    \/ \E accounts \in SeqsUpTo(AccountEntries, MaxImport),
          times \in SeqsUpTo(FutureTimeEntries, MaxImport) : populate(accounts, times)

SpecFuture == Init /\ [][NextFuture]_vars

\* switching: timers are added and listed, and timer_start is called with
\* positions that resolve to a timer; nothing is paused, archived or imported
NextSwitch ==
    \/ Tick
    \/ \E selection \in Selections, memo \in Memos : add_timer(selection, memo, 0)
    \/ list_timers(FALSE)
    \/ \E position \in Positions :
          PosGet(pos_to_id, position) \in DOMAIN Times /\ timer_start(position)

SpecSwitch == Init /\ [][NextSwitch]_vars

(* ---------------- modules/database.py, the earlier revision ------------- *)
\* database.py has no position map: timer_start and timer_pause select their
\* row by OFFSET position - 1, and add_timer stores no datetime
RECURSIVE database_RowsFrom(_, _, _)
\* SELECT time_id FROM Times WHERE status IN statuses ORDER BY time_id, as the
\* sequence of the time_ids >= i
database_RowsFrom(T, statuses, i) ==
    IF i > Len(T) THEN << >>
    ELSE IF T[i].status \in statuses
         THEN <<i>> \o database_RowsFrom(T, statuses, i + 1)
         ELSE database_RowsFrom(T, statuses, i + 1)

\* ... LIMIT 1 OFFSET position - 1; cursor.fetchone()  (0: None)
database_fetchone(T, statuses, position) ==
    LET rows == database_RowsFrom(T, statuses, 1)
    IN IF position \in DOMAIN rows THEN rows[position] ELSE 0

\* the time_id in row idx of the table _list_timers() builds  (0: no such row)
database_list_timers_row(T, A, idx) ==
    LET timers == ListedIds(T, A, FALSE)
    IN IF idx \in DOMAIN timers THEN timers[idx] ELSE 0

\* INSERT INTO Times (...) VALUES (?, ?, 'paused', 0, NULL)
database_add_timer(selection, memo) ==
    LET found == account_completions(Accounts, Lower(selection))
        A1 == IF found = 0 THEN Append(Accounts, AccountsRow(selection)) ELSE Accounts
        account_id == IF found = 0 THEN Len(A1) ELSE found
    IN /\ Len(A1) <= MaxAccounts
       /\ Len(Times) < MaxTimers
       /\ Accounts' = A1
       /\ Times' = Append(Times, TimesRow(account_id, memo, "paused", 0, NULL))
       /\ last' = Call("add_timer", Len(Times) + 1, "added")
       /\ UNCHANGED <<pos_to_id, clock, conn, console>>

\* UPDATE Times SET status = 'inactive' WHERE datetime < ? AND status != 'inactive'
database_archive_timers ==
    /\ Times' = ArchiveRows(Times, ArchiveCutoff)
    /\ last' = Wrote(Times, Times', Call("archive_timers", 0, ""))
    /\ UNCHANGED <<Accounts, pos_to_id, clock, conn, console>>

\* UPDATE Times SET status = 'paused', timedelta = timedelta + (? - datetime),
\* datetime = NULL WHERE status = 'running'
database_StopRunning(T, now) ==
    [i \in DOMAIN T |->
        IF T[i].status = "running"
        THEN [T[i] EXCEPT !.status = "paused",
                          !.timedelta = T[i].timedelta + (now - T[i].datetime),
                          !.datetime = NULL]
        ELSE T[i]]

\* the branch timer_start takes for the row it fetched: a previous day is
\* start_time < now - (now % 86400)
database_StartBranch(T, time_id, now) ==
    IF time_id = 0 THEN "invalid"
    ELSE IF Truthy(T[time_id].datetime) /\ T[time_id].datetime < now - (now % DayLen)
         THEN "rollover"
         ELSE "started"

\* timer_start: the row is fetched among the timers of every status; for a timer
\* of a previous day the running copy is inserted and nothing else is written;
\* otherwise the running timers are stopped and the row is started
database_timer_start(position) ==
    LET now == timestamp
        time_id == database_fetchone(Times, {"paused", "running", "inactive"}, position)
        branch == database_StartBranch(Times, time_id, now)
        T2 == CASE branch = "rollover" ->
                      Append(Times, TimesRow(Times[time_id].account_id, Times[time_id].memo,
                                             "running", 0, now))
                [] branch = "started" -> StartInPlace(database_StopRunning(Times, now), time_id, now)
                [] OTHER -> Times
    IN /\ Len(T2) <= MaxTimers + 1
       /\ Times' = T2
       /\ last' = Wrote(Times, T2, Call("timer_start", time_id, branch))
       /\ UNCHANGED <<Accounts, pos_to_id, clock, conn, console>>

\* timer_pause: the row is fetched among the paused and running timers
database_timer_pause(position) ==
    LET now == timestamp
        time_id == database_fetchone(Times, {"paused", "running"}, position)
        T2 == IF time_id # 0 /\ Times[time_id].datetime # NULL
              THEN PauseRow(Times, time_id, now)
              ELSE Times
    IN /\ Times' = T2
       /\ last' = Wrote(Times, T2, Call("timer_pause", time_id, "stopped"))
       /\ UNCHANGED <<Accounts, pos_to_id, clock, conn, console>>

\* the shell of database.py
NextDatabase ==
    \/ Tick
    \/ \E selection \in Selections, memo \in Memos : database_add_timer(selection, memo)
    \/ database_archive_timers
    \/ \E position \in Positions : database_timer_start(position)
    \/ \E position \in Positions : database_timer_pause(position)

SpecDatabase == Init /\ [][NextDatabase]_vars

(* ------------------------------ sanity --------------------------------- *)
TypeOK ==
    /\ \A i \in DOMAIN Times :
          /\ Times[i].status \in {"paused", "running", "inactive"}
          /\ Times[i].status = "running" => Times[i].datetime # NULL
    /\ Len(Times) <= MaxTimers
    /\ Len(Accounts) <= MaxAccounts

(* ------------------------------ claims --------------------------------- *)
\* the time_id a position resolves to is an existing row
Resolves(position) == PosGet(pos_to_id, position) \in DOMAIN Times

\* local midnights of the days the runs can touch
Midnights == {k * DayLen : k \in 0 .. 4}

C2_PauseOnPausedIsNoOp ==
    [][\A position \in Positions :
          LET id == PosGet(pos_to_id, position) IN
          (timer_pause(position) /\ Resolves(position) /\ Times[id].status = "paused")
          => /\ Times'[id].timedelta = Times[id].timedelta
             /\ Times'[id].status = "paused"
             /\ PauseBranch(Times, id) = "already paused"]_vars

\* C3 (as claimed): over steps of the clock, timer_start and timer_pause, elapsed
\* of a timer does not decrease while it stays running and does not change
\* while its status stays paused or inactive
C3_ElapsedMonotone ==
    [][(Tick \/ \E position \in Positions : timer_start(position) \/ timer_pause(position))
       => \A i \in DOMAIN Times :
             /\ (Times[i].status = "running" /\ Times'[i].status = "running")
                => elapsed(Times'[i], timestamp') >= elapsed(Times[i], timestamp)
             /\ (Times[i].status # "running" /\ Times'[i].status # "running")
                => elapsed(Times'[i], timestamp') = elapsed(Times[i], timestamp)]_vars

\* C4 (as claimed): timer_start on a paused timer whose reference timestamp is
\* earlier than the start of the current day inserts one running copy (same
\* account_id and memo, timedelta 0, datetime now) and makes the original
\* inactive, its timedelta and datetime unchanged
C4_RolloverOfPreviousDay ==
    [][\A position \in Positions :
          LET id == PosGet(pos_to_id, position) IN
          (/\ timer_start(position)
           /\ Resolves(position)
           /\ Times[id].status = "paused"
           /\ Times[id].datetime # NULL
           /\ Times[id].datetime < Midnight(Sec))
          => /\ Len(Times') = Len(Times) + 1
             /\ Times'[Len(Times')] =
                   TimesRow(Times[id].account_id, Times[id].memo, "running", 0, timestamp)
             /\ Times'[id] = [Times[id] EXCEPT !.status = "inactive"]]_vars

\* C5 (as claimed): no step banks into a timer's timedelta a running interval
\* [datetime, now) that has a local midnight strictly inside it
C5_NoBankingAcrossMidnight ==
    [][\A i \in DOMAIN Times :
          (Times[i].status = "running" /\ Times'[i].timedelta # Times[i].timedelta)
          => ~ \E m \in Midnights : Times[i].datetime < m /\ m < timestamp']_vars

\* C6 (as claimed): within one day, a start of a paused timer makes it running
\* with datetime now and the same timedelta, and the pause of a running timer
\* makes it paused with timedelta increased by now - datetime, so that timedelta
\* is the sum of the completed start/pause intervals
C6_SameDayAccounting ==
    [][\A position \in Positions :
          LET id == PosGet(pos_to_id, position) IN
          (/\ Resolves(position)
           /\ Times[id].datetime # NULL
           /\ Times[id].datetime >= Midnight(Sec)
           /\ Times[id].datetime <= timestamp)
          => /\ (timer_start(position) /\ Times[id].status = "paused")
                => /\ Times'[id].status = "running"
                   /\ Times'[id].datetime = timestamp
                   /\ Times'[id].timedelta = Times[id].timedelta
             /\ (timer_pause(position) /\ Times[id].status = "running")
                => /\ Times'[id].status = "paused"
                   /\ Times'[id].timedelta - Times[id].timedelta
                         = timestamp - Times[id].datetime]_vars

\* C7 (as claimed): timer_start with a position that resolves to no timer leaves
\* the Times table exactly as it was
C7_InvalidStartChangesNothing ==
    [][\A position \in Positions :
          (timer_start(position) /\ ~ Resolves(position)) => Times' = Times]_vars

\* C8 (as claimed): timer_start while another timer R is running leaves R paused,
\* its timedelta increased by now - datetime, and its datetime NULL
C8_OtherStoppedAndCleared ==
    [][\A position \in Positions : \A R \in RunningIds(Times) :
          (timer_start(position) /\ R # PosGet(pos_to_id, position))
          => /\ Times'[R].status = "paused"
             /\ Times'[R].timedelta = Times[R].timedelta + (timestamp - Times[R].datetime)
             /\ Times'[R].datetime = NULL]_vars

\* C8 (amended): timer_start while another timer R is running leaves R paused,
\* its timedelta increased by now - datetime, and its datetime set to now
C8_OtherStoppedAndStamped ==
    [][\A R \in RunningIds(Times) :
          (last'.op = "timer_start" /\ R # last'.time_id)
          => /\ Times'[R].status = "paused"
             /\ Times'[R].timedelta = Times[R].timedelta + (timestamp - Times[R].datetime)
             /\ Times'[R].datetime = timestamp]_vars

\* a timer_start on one timer has stopped another one that had run for a while
C8_Witness ==
    /\ last.op = "timer_start"
    /\ last.time_id # 0
    /\ \E R \in last.running :
          /\ R # last.time_id
          /\ Times[R].status = "paused"
          /\ Times[R].timedelta > 0
          /\ Times[R].datetime = timestamp

\* C9 (as claimed): timer_start on a paused timer whose reference timestamp lies
\* in the current day starts it in place: running, datetime now, timedelta
\* unchanged, no row inserted
C9_SameDayStartInPlace ==
    [][\A position \in Positions :
          LET id == PosGet(pos_to_id, position) IN
          (/\ timer_start(position)
           /\ Resolves(position)
           /\ Times[id].status = "paused"
           /\ Times[id].datetime # NULL
           /\ Times[id].datetime >= Midnight(Sec)
           /\ Times[id].datetime < Midnight(Sec) + DayLen)
          => /\ Len(Times') = Len(Times)
             /\ Times'[id] = [Times[id] EXCEPT !.status = "running", !.datetime = timestamp]]_vars

\* C10: timer_pause on a running timer leaves it paused, its timedelta increased
\* by now - datetime and its datetime set to now
C10_PauseBanksAndStamps ==
    [][\A id \in RunningIds(Times) :
          (last'.op = "timer_pause" /\ last'.time_id = id)
          => /\ Times'[id].status = "paused"
             /\ Times'[id].timedelta = Times[id].timedelta + (timestamp - Times[id].datetime)
             /\ Times'[id].datetime = timestamp]_vars

\* a timer_pause has stopped its running target after it had run for a while
C10_Witness ==
    /\ last.op = "timer_pause"
    /\ last.msg = "stopped"
    /\ last.time_id \in last.running
    /\ Times[last.time_id].status = "paused"
    /\ Times[last.time_id].timedelta > 0
    /\ Times[last.time_id].datetime = timestamp

\* C11 (as claimed): in every reachable state the datetime column of a timer is
\* non-null if and only if its status is 'running'
C11_RunningSinceIffRunning ==
    \A i \in DOMAIN Times : (Times[i].datetime # NULL) <=> (Times[i].status = "running")

\* C11 (amended): in every reachable state a timer whose status is 'running' has
\* a non-null datetime; paused and inactive timers may hold a timestamp as well
C11_RunningHasRunningSince ==
    \A i \in DOMAIN Times : Times[i].status = "running" => Times[i].datetime # NULL

\* a timer has been started in place, next to a paused timer that holds a
\* timestamp
C11_Witness ==
    /\ last.op = "timer_start"
    /\ last.msg = "started"
    /\ Times[last.time_id].status = "running"
    /\ Times[last.time_id].datetime = timestamp
    /\ \E j \in DOMAIN Times : Times[j].status = "paused" /\ Times[j].datetime # NULL

\* C12: archive_timers makes inactive exactly the timers whose datetime is
\* earlier than the start of the current day and whose status is not inactive,
\* changes no other column of them and leaves every other timer as it was
C12_ArchiveExactlyStale ==
    [][archive_timers
       => /\ Len(Times') = Len(Times)
          /\ \A i \in DOMAIN Times :
                IF /\ Times[i].datetime # NULL
                   /\ Times[i].datetime < Midnight(Sec)
                   /\ Times[i].status # "inactive"
                THEN Times'[i] = [Times[i] EXCEPT !.status = "inactive"]
                ELSE Times'[i] = Times[i]]_vars

\* archive_timers has archived a timer of the previous day and kept a timer
\* stamped at today's midnight
C12_Witness ==
    /\ last.op = "archive_timers"
    /\ \E i \in DOMAIN Times :
          Times[i].status = "inactive" /\ Times[i].datetime < Midnight(Sec)
    /\ \E j \in DOMAIN Times :
          Times[j].status # "inactive" /\ Times[j].datetime = Midnight(Sec)

C14_TimedeltaNonNegative ==
    \A i \in DOMAIN Times : Times[i].timedelta >= 0

\* the table timer_start(time_id) at (now, today) leaves when taken as one step
StartOutcome(T, time_id, now, today) ==
    LET T1 == StopRunning(T, now)
        branch == StartBranch(T1, time_id, today)
    IN CASE branch = "rollover" -> Rollover(T1, time_id, now)
         [] branch = "started" -> StartInPlace(T1, time_id, now)
         [] OTHER -> T1

C16_AddAccountDuplicateOrFresh ==
    [][\A account_name \in AccountNames :
          add_account(account_name)
          => IF \E i \in DOMAIN Accounts : Accounts[i].account_name = account_name
             THEN Accounts' = Accounts
             ELSE /\ Len(Accounts') = Len(Accounts) + 1
                  /\ Accounts'[Len(Accounts')].account_name = account_name
                  /\ \A i \in DOMAIN Accounts : Accounts'[i] = Accounts[i]]_vars

\* add_account has added the account "A" next to the account "a"
C16_Witness ==
    /\ last.op = "add_account"
    /\ Len(Accounts) >= 2
    /\ Accounts[Len(Accounts)].account_name = "A"
    /\ \E i \in 1 .. (Len(Accounts) - 1) : Accounts[i].account_name = "a"

\* C17 (as claimed): in every reachable state every account has a non-empty
\* name and no two accounts have the same name
C17_NamesNonEmptyUnique ==
    /\ \A i \in DOMAIN Accounts : Accounts[i].account_name # ""
    /\ \A i, j \in DOMAIN Accounts :
          Accounts[i].account_name = Accounts[j].account_name => i = j

\* C18: in every reachable state the account_id of every timer is the id of an
\* existing account
C18_AccountIdRefersToAccount ==
    \A i \in DOMAIN Times : Times[i].account_id \in DOMAIN Accounts

\* timer_start has inserted the running copy of a timer of a previous day, on
\* the account of the original
C18_Witness ==
    /\ last.op = "timer_start"
    /\ last.msg = "rollover"
    /\ Times[Len(Times)].status = "running"
    /\ Times[Len(Times)].account_id = Times[last.time_id].account_id
    /\ Times[Len(Times)].account_id \in DOMAIN Accounts

\* the elements of a set of time_ids in ascending order
Ascending(S) ==
    CHOOSE f \in [1 .. Cardinality(S) -> S] :
        \A i, j \in 1 .. Cardinality(S) : i < j => f[i] < f[j]

\* C19 (as claimed): a listing shows, in ascending time_id order, exactly the
\* running and paused timers, or exactly all timers with --all, and right after
\* it the position map is that listing: position i is the timer of row i and
\* no other position resolves
C19_PositionsAreTheListing ==
    [][\A all \in BOOLEAN :
          list_timers(all)
          => pos_to_id' = Ascending({i \in DOMAIN Times :
                                        all \/ Times[i].status \in {"running", "paused"}})]_vars

\* the Monday midnight of the week that holds report_date
MondayOf(report_date) == (report_date \div days(7)) * days(7)

\* C20 (as claimed): the week total of the weekly report is the sum of the
\* timedelta of all timers whose datetime lies in [Monday 00:00, next Monday
\* 00:00) of the week of the reference date, the timers of its Sunday included
C20_WeekTotalCoversSunday ==
    [][\A report_date \in ReportDates :
          report_week(report_date)
          => console'.week_total =
                SumTimedelta(Times, {i \in DOMAIN Times :
                                       /\ Times[i].datetime # NULL
                                       /\ MondayOf(report_date) <= Times[i].datetime
                                       /\ Times[i].datetime < MondayOf(report_date) + days(7)})]_vars

\* sum of the timedelta of the timers whose datetime lies in [lo, hi)
SumStartedIn(T, lo, hi) ==
    SumTimedelta(T, {i \in DOMAIN T :
                       T[i].datetime # NULL /\ lo <= T[i].datetime /\ T[i].datetime < hi})

\* C21 (as claimed): each day total of the weekly report is the sum over the
\* timers whose datetime lies in [that day 00:00, next day 00:00), so a timer
\* dated exactly at a midnight counts for the day that begins there only, and
\* the seven day totals add up to the sum over the timers of the week
C21_DayTotalsHalfOpen ==
    [][\A report_date \in ReportDates :
          report_week(report_date)
          => \A i \in 1 .. 7 :
                console'.day_totals[i] =
                    SumStartedIn(Times, MondayOf(report_date) + days(i - 1),
                                 MondayOf(report_date) + days(i))]_vars

\* C22 (as claimed): the weekly report depends on the week of the reference date
\* only (its window begins at the Monday of that week), and it prints a day
\* entry exactly for the days on which the timers started that day have a
\* non-zero sum, the entry being that sum
C22_EntriesForNonZeroDays ==
    [][\A report_date \in ReportDates :
          report_week(report_date)
          => /\ console'.week_start = MondayOf(report_date)
             /\ console'.week_end = MondayOf(report_date) + days(6)
             /\ \A i \in 1 .. 7 :
                   LET started == SumStartedIn(Times, MondayOf(report_date) + days(i - 1),
                                               MondayOf(report_date) + days(i))
                   IN /\ (console'.day_totals[i] # 0) <=> (started # 0)
                      /\ console'.day_totals[i] # 0 => console'.day_totals[i] = started]_vars

\* the account names of a table or of a list of imported accounts
NamesOf(A) == {A[i].account_name : i \in DOMAIN A}

\* the imported time entries whose account_name is one of names, in their order
EntriesOf(times, names) ==
    LET known(e) == e.account_name \in names
    IN SelectSeq(times, known)

\* C23: from every reachable database and for every imported file, populate
\* leaves the existing accounts and timers as they are, adds the account names
\* that are new (once each), and appends, in the order of the file, one paused
\* timer with the entry's timedelta and datetime for every time entry whose
\* account_name is then an account, and nothing for the other entries
C23_ImportAddsResolvedEntries ==
    \A accounts \in SeqsUpTo(ImportedAccountEntries, MaxImport),
       times \in SeqsUpTo(ImportedTimeEntries, MaxImport + 1) :
        LET A1 == PopulateAccounts(Accounts, accounts)
            T1 == PopulateTimes(Times, A1, times)
            resolved == EntriesOf(times, NamesOf(Accounts) \cup NamesOf(accounts))
        IN /\ SubSeq(A1, 1, Len(Accounts)) = Accounts
           /\ NamesOf(A1) = NamesOf(Accounts) \cup NamesOf(accounts)
           /\ Len(A1) = Cardinality(NamesOf(A1))
           /\ SubSeq(T1, 1, Len(Times)) = Times
           /\ Len(T1) = Len(Times) + Len(resolved)
           /\ \A k \in DOMAIN resolved :
                 LET row == T1[Len(Times) + k]
                 IN /\ row.status = "paused"
                    /\ row.timedelta = resolved[k].timedelta
                    /\ row.datetime = resolved[k].datetime
                    /\ row.memo = resolved[k].memo
                    /\ row.account_id \in DOMAIN A1
                    /\ A1[row.account_id].account_name = resolved[k].account_name

\* an import has skipped an entry of an unknown account and has added a paused
\* timer of 1 second for another entry
C23_Witness ==
    /\ last.op = "populate"
    /\ last.msg = "skipped"
    /\ Times # << >>
    /\ Times[Len(Times)].status = "paused"
    /\ Times[Len(Times)].timedelta = 1
    /\ Accounts[Times[Len(Times)].account_id].account_name \in ImportedNames

\* the seconds a text of hours and tenths denotes
TenthsDenoted(text) == (text[1].n * 10 + text[2].n) * 360

\* C24: with a granularity of 6, 12, 30 or 60 minutes format_hours_and_tenths
\* prints the least whole multiple of the granularity that is not less than
\* total_seconds
C24_RoundsUpToGranularity ==
    (console.op = "format_hours_and_tenths" /\ console.round_up \in {6, 12, 30, 60})
    => LET unit == console.round_up * 60
           denoted == TenthsDenoted(console.text)
       IN /\ console.text[1].unit = "."
          /\ console.text[2].unit = "h"
          /\ console.text[2].n \in 0 .. 9
          /\ denoted % unit = 0
          /\ denoted >= console.total_seconds
          /\ denoted - unit < console.total_seconds \/ denoted = 0

\* 359 seconds have been printed with granularity 6 as "0.1h"
C24_Witness ==
    /\ console.op = "format_hours_and_tenths"
    /\ console.total_seconds = 359
    /\ console.round_up = 6
    /\ console.text = <<Part(0, "."), Part(1, "h")>>

\* C25 (as claimed): format_hours_and_tenths(0) with the default granularity
\* returns "0.0h"
C25_ZeroIsZeroHours ==
    (/\ console.op = "format_hours_and_tenths"
     /\ console.total_seconds = 0
     /\ console.round_up = MINUTES)
    => console.text = <<Part(0, "."), Part(0, "h")>>

\* C25 (amended): format_hours_and_tenths(0) with the default granularity
\* MINUTES = 1 returns "0m"
C25_ZeroIsZeroMinutes ==
    (/\ console.op = "format_hours_and_tenths"
     /\ console.total_seconds = 0
     /\ console.round_up = MINUTES)
    => console.text = <<Part(0, "m")>>

\* 0 seconds have been printed with the default granularity
C25_Witness ==
    /\ console.op = "format_hours_and_tenths"
    /\ console.total_seconds = 0
    /\ console.round_up = MINUTES
    /\ console.text = format_hours_minutes_seconds(0)

\* C26: a timer becomes inactive only as the target of a rollover of timer_start
\* or by archive_timers, and a new timer is paused or, as the copy a rollover
\* inserts, running
C26_InactiveOnlyByRolloverOrArchive ==
    [][/\ \A i \in DOMAIN Times :
             (Times[i].status # "inactive" /\ Times'[i].status = "inactive")
             => \/ last'.op = "archive_timers"
                \/ /\ last'.op = "timer_start"
                   /\ last'.msg = "rollover"
                   /\ last'.time_id = i
       /\ \A i \in (DOMAIN Times') \ (DOMAIN Times) :
             \/ Times'[i].status = "paused"
             \/ /\ Times'[i].status = "running"
                /\ last'.op = "timer_start"
                /\ last'.msg = "rollover"]_vars

\* a rollover has made its target inactive and its copy is the running timer
C26_Witness ==
    /\ last.op = "timer_start"
    /\ last.msg = "rollover"
    /\ Times[last.time_id].status = "inactive"
    /\ RunningIds(Times) = {Len(Times)}

C28_InactiveIsFinal ==
    [][\A i \in DOMAIN Times :
          Times[i].status = "inactive"
          => /\ Times'[i].status = "inactive"
             /\ Times'[i].timedelta = Times[i].timedelta]_vars

\* C29 (as claimed): archive_timers leaves elapsed(timer, now) of every timer
\* as it was
C29_ArchiveKeepsElapsed ==
    [][archive_timers
       => \A i \in DOMAIN Times :
             elapsed(Times'[i], timestamp) = elapsed(Times[i], timestamp)]_vars

\* C30 (as claimed): after a listing, and after the listing that ends
\* timer_start and timer_pause, the position map has no entry for a position
\* greater than the number of rows listed
C30_NoPositionBeyondListing ==
    [][/\ \A all \in BOOLEAN :
             list_timers(all)
             => DOMAIN pos_to_id' \subseteq 1 .. Len(ListedIds(Times, Accounts, all))
       /\ last'.op \in {"timer_start", "timer_pause"}
          => DOMAIN pos_to_id' \subseteq 1 .. Len(ListedIds(Times', Accounts, FALSE))]_vars

\* C31: timer_start on the timer that is itself running, with a datetime of the
\* current day, leaves it running with datetime now and its timedelta increased
\* by now - datetime, inserts no row, and elapsed(timer, now) is what it was
C31_RestartBanksOpenInterval ==
    [][\A id \in RunningIds(Times) :
          (/\ last'.op = "timer_start"
           /\ last'.time_id = id
           /\ Times[id].datetime >= Midnight(Sec))
          => /\ Len(Times') = Len(Times)
             /\ Times'[id] =
                   [Times[id] EXCEPT !.timedelta = Times[id].timedelta + (timestamp - Times[id].datetime),
                                     !.datetime = timestamp]
             /\ elapsed(Times'[id], timestamp) = elapsed(Times[id], timestamp)]_vars

\* the running timer has been restarted after its interval was open for some time
C31_Witness ==
    /\ last.op = "timer_start"
    /\ last.time_id \in last.running
    /\ Times[last.time_id].status = "running"
    /\ Times[last.time_id].timedelta > 0
    /\ Times[last.time_id].datetime = timestamp
    /\ Times[last.time_id].datetime >= Midnight(Sec) + 1

RECURSIVE SumElapsedOf(_, _, _)
\* sum of elapsed(timer, now) over the rows S of T
SumElapsedOf(T, S, now) ==
    IF S = {} THEN 0
    ELSE LET i == CHOOSE x \in S : TRUE
         IN elapsed(T[i], now) + SumElapsedOf(T, S \ {i}, now)

SumElapsed(T, now) == SumElapsedOf(T, DOMAIN T, now)

\* C32: over timer_start calls on valid timers, the sum over all timers of
\* elapsed(timer, now) is now - t1, t1 the time of the first start: the sum is
\* 0 when the first timer is started, and from then on a timer is running
\* and every step (a start, an added timer, a listing, the clock) changes the
\* sum by exactly the time that passes
C32_SwitchingConservesTime ==
    [][/\ (RunningIds(Times) = {} /\ RunningIds(Times') # {})
          => SumElapsed(Times', timestamp') = 0
       /\ RunningIds(Times) # {}
          => /\ RunningIds(Times') # {}
             /\ SumElapsed(Times', timestamp') - SumElapsed(Times, timestamp)
                   = timestamp' - timestamp]_vars

\* within one day the running timer was switched: the timer stopped holds the
\* time since its start, the target runs from now, and the sum is that time
C32_Witness ==
    /\ last.op = "timer_start"
    /\ last.time_id \notin last.running
    /\ RunningIds(Times) = {last.time_id}
    /\ \E R \in last.running :
          /\ Times[R].timedelta > 0
          /\ Times[R].datetime - Times[R].timedelta >= Midnight(Sec)
          /\ SumElapsed(Times, timestamp) = Times[R].timedelta

\* C33: a timer_pause that writes has a target and changes no other timer; a
\* timer_start changes at most the timers that were running, its target and
\* the one row a rollover appends; neither changes the account_id or the memo
\* of a timer, removes a timer or changes Accounts
C33_FrameOfStartAndPause ==
    [][last'.op \in {"timer_start", "timer_pause"}
       => /\ Accounts' = Accounts
          /\ Len(Times') >= Len(Times)
          /\ Len(Times') <= Len(Times) + 1
          /\ Len(Times') = Len(Times) + 1
                => (last'.op = "timer_start" /\ last'.msg = "rollover")
          /\ \A i \in DOMAIN Times :
                /\ Times'[i].account_id = Times[i].account_id
                /\ Times'[i].memo = Times[i].memo
                /\ Times'[i] # Times[i]
                      => \/ i = last'.time_id
                         \/ last'.op = "timer_start" /\ i \in last'.running
          /\ last'.op = "timer_pause" => last'.time_id \in DOMAIN Times]_vars

\* a timer_pause has written to its target while a second timer, which never
\* ran, was in the table
C33_Witness ==
    /\ last.op = "timer_pause"
    /\ last.time_id \in DOMAIN Times
    /\ Times[last.time_id].timedelta > 0
    /\ \E j \in DOMAIN Times \ {last.time_id} :
          /\ Times[j].status = "paused"
          /\ Times[j].timedelta = 0

RECURSIVE SumOver(_, _)
\* sum of the values of the function f over the set S of its arguments
SumOver(f, S) ==
    IF S = {} THEN 0
    ELSE LET x == CHOOSE y \in S : TRUE
         IN f[x] + SumOver(f, S \ {x})

\* C34: the month total of the monthly report is the sum of the timedelta of
\* the timers whose datetime lies in [first day of the month 00:00, first day of
\* the next month 00:00); the account totals add up to the month total, every
\* such timer is listed under exactly one account and no other timer is listed
C34_MonthIsHalfOpenAndPartitioned ==
    [][(console' # console /\ console'.op = "report_month")
          => LET k == MonthOf(console'.report_date)
                 inMonth == {i \in DOMAIN Times :
                               /\ Times[i].datetime # NULL
                               /\ MonthStart(k) <= Times[i].datetime
                               /\ Times[i].datetime < MonthStart(k + 1)}
                 names == DOMAIN console'.account_totals
             IN /\ console'.month_total = SumStartedIn(Times, MonthStart(k), MonthStart(k + 1))
                /\ SumOver(console'.account_totals, names) = console'.month_total
                /\ UNION {console'.timers[n] : n \in names} = inMonth
                /\ \A n, m \in names : n # m => console'.timers[n] \cap console'.timers[m] = {}
                /\ \A n \in names :
                      console'.account_totals[n] = SumTimedelta(Times, console'.timers[n])]_vars

\* a monthly report was printed for a month in which two accounts have a
\* timer, one of them in its first second, or which has a timer in its last
\* second while another timer starts with the next month
C34_Witness ==
    /\ console.op = "report_month"
    /\ console.month_total > 0
    /\ \/ /\ Cardinality(DOMAIN console.account_totals) = 2
          /\ \E i \in DOMAIN Times : Times[i].datetime = console.month_start
       \/ /\ \E i \in DOMAIN Times : Times[i].datetime = console.month_end
          /\ \E i \in DOMAIN Times : Times[i].datetime = console.month_end + 1

\* C35 (as claimed): the report_account for all months lists every timer of
\* the account exactly once, under the calendar month its datetime is in, and
\* the range of each month is [first day 00:00, first day of the next month 00:00)
C35_AllMonthsAreCalendarMonths ==
    [][(/\ console' # console
        /\ console'.op = "report_account"
        /\ console'.all
        /\ console'.msg = "")
       => LET months == console'.months
              mine == {i \in DOMAIN Times : Times[i].account_id = console'.account_id}
          IN /\ \A i \in mine :
                   \E k \in DOMAIN months :
                      /\ i \in months[k].timers
                      /\ MonthOf(months[k].month_start) = MonthOf(Times[i].datetime)
                      /\ \A j \in DOMAIN months : i \in months[j].timers => j = k
             /\ \A k \in DOMAIN months :
                   /\ months[k].month_start = MonthStart(MonthOf(months[k].month_start))
                   /\ months[k].month_end + 1 = MonthStart(MonthOf(months[k].month_start) + 1)]_vars

RECURSIVE SecondsDenoted(_)
\* the seconds a text of hours, minutes and seconds denotes
SecondsDenoted(text) ==
    IF text = << >> THEN 0
    ELSE (CASE Head(text).unit = "h" -> 3600 * Head(text).n
            [] Head(text).unit = "m" -> 60 * Head(text).n
            [] OTHER -> Head(text).n)
         + SecondsDenoted(Tail(text))

\* C36 (as claimed): with a granularity of 0 or 1 the text printed denotes
\* total_seconds exactly (H*3600 + M*60 + S = total_seconds), with minutes and
\* seconds below 60
C36_CompoundTextIsExact ==
    (console.op = "format_hours_and_tenths" /\ console.round_up <= 1)
    => /\ SecondsDenoted(console.text) = console.total_seconds
       /\ \A k \in DOMAIN console.text :
             console.text[k].unit \in {"m", "s"} => console.text[k].n < 60

\* C37 (as claimed): in database.py, a timer_start that takes the rollover
\* branch while another timer is running leaves at most one timer running: the
\* running timer is paused with its interval banked and the target is inactive
C37_RolloverKeepsOneRunning ==
    [][(/\ last'.op = "timer_start"
        /\ last'.msg = "rollover"
        /\ last'.running \ {last'.time_id} # {})
       => /\ Cardinality(RunningIds(Times')) <= 1
          /\ Times'[last'.time_id].status = "inactive"
          /\ \A R \in last'.running \ {last'.time_id} :
                /\ Times'[R].status = "paused"
                /\ Times'[R].timedelta = Times[R].timedelta + (timestamp - Times[R].datetime)]_vars

\* C38 (as claimed): in database.py, in every reachable state and for every
\* position, the row timer_start fetches is the timer in that row of the
\* default listing, and so is the row timer_pause fetches
C38_PositionIsTheListedRow ==
    \A position \in Positions :
        /\ database_fetchone(Times, {"paused", "running", "inactive"}, position)
              = database_list_timers_row(Times, Accounts, position)
        /\ database_fetchone(Times, {"paused", "running"}, position)
              = database_list_timers_row(Times, Accounts, position)

====
